---- MODULE Spec2Model ----
(***************************************************************************)
(* State-machine model of the EA review service:                           *)
(*   - ReviewOrchestrator.review and its helpers _run_with_sla, _fail,     *)
(*     _run_scoring and _log (app/orchestrator/review_orchestrator.py),    *)
(*   - the agents as the orchestrator sees them (app/agents/*.py),         *)
(*   - the streaming endpoint's producer task run_review and consumer      *)
(*     event_generator (app/api/routes.py).                                *)
(* The producer and the consumer are two asyncio tasks; every step of one  *)
(* may interleave with every step of the other.                            *)
(***************************************************************************)
EXTENDS Naturals, Sequences, FiniteSets, TLC

VARIABLES
    metadata,      \* body.get("metadata", {}): the submitted metadata value
    pc,            \* position of the producer task (run_review / review)
    step,          \* index of the next statement of review's try block
    ctx,           \* the ReviewSessionContext of the review
    exc,           \* str(e) of the exception in flight ("" when none)
    fail_args,     \* arguments of the pending _fail call
    payload,       \* the payload variable of review
    review_out,    \* how orchestrator.review ended: none | returned | raised
    calls,         \* history of fn(ctx) invocations made by _run_with_sla
    fail_calls,    \* history of format_failure_response invocations
    log_calls,     \* history of self._logger.log invocations
    sc,            \* locals of _run_scoring: the loop index and the running sums
    queue,         \* the asyncio.Queue between run_review and event_generator
    produced,      \* history of every item ever put on the queue
    yielded,       \* chunks event_generator has yielded to the subscriber
    cpc,           \* position of event_generator
    disconnected,  \* request.is_disconnected()
    clock,         \* the wall clock read by time.time() and datetime.now()
    sla,           \* locals of one _run_with_sla call followed read by read
    planner,       \* one PlannerAgent.plan call: the oracle's reply and the outcome
    app            \* the process serving several requests: the module-level
                   \* orchestrator, and each request's locals, context and queue

vars == <<metadata, pc, step, ctx, exc, fail_args, payload, review_out, calls,
          fail_calls, log_calls, sc, queue, produced, yielded, cpc, disconnected,
          clock, sla, planner, app>>

producer_vars == <<metadata, pc, step, ctx, exc, fail_args, payload, review_out,
                   calls, fail_calls, log_calls, sc>>

consumer_vars == <<yielded, cpc>>

aux_vars == <<clock, sla, planner, app>>

-----------------------------------------------------------------------------
(* Inputs *)

\* What metadata["arch_img_url"] can hold, by what validate and the image
\* preprocessor distinguish: key absent, a blank string, a non-string value,
\* a string that is not base64, base64 that does not decode to an image, and
\* a base64-encoded image.
ImgValues == {"missing", "blank", "nonstring", "not_base64", "b64_not_image", "b64_image"}

\* body.get("metadata", {}) is any JSON value: a dict (isdict) or a list,
\* string, number or null.  A submitted dict has no "similarity_score" key.
MetadataValues ==
    [isdict : BOOLEAN, arch_img_url : ImgValues, similarity_score : {"absent"}]

REVIEW_ID == "R1"

-----------------------------------------------------------------------------
(* Session context *)

EmptyMap == [a \in {} |-> 0]

\* review_scores: ReviewScores | None = None
NoScores == [status |-> "None", error |-> "", per_agent |-> EmptyMap, overall |-> EmptyMap]

NoValidation == [set |-> FALSE, is_valid |-> FALSE, issues |-> <<>>]

ReviewSessionContext(md) ==
    [ review_id              |-> REVIEW_ID,
      metadata               |-> md,
      computed_metadata      |-> "empty",
      validation_result      |-> NoValidation,
      preprocessed_image     |-> "None",
      demographics_from_json |-> "None",
      image_analysis         |-> "None",
      triage_results         |-> "empty",
      remediation_result     |-> "None",
      agent_sla              |-> <<>>,
      llm_traces             |-> <<>>,
      review_scores          |-> NoScores ]

NoContext ==
    ReviewSessionContext([isdict |-> FALSE, arch_img_url |-> "missing",
                          similarity_score |-> "absent"])

-----------------------------------------------------------------------------
(* Input validation *)

ValidationIssue(form, field, message) ==
    [form |-> form, field |-> field, message |-> message, level |-> "error"]

\* InputValidationAgent.validate: never raises.  `reply` is "internal_error"
\* when the body of its try block fails and the handler builds the result.
\* The issues are dataclass instances on the not-a-dict path and dicts
\* (asdict(issue)) on the other two paths.
validate(md, reply) ==
    IF reply = "internal_error"
    THEN [set |-> TRUE, is_valid |-> FALSE,
          issues |-> <<ValidationIssue("dict", "input_validation", "internal error")>>]
    ELSE IF ~md.isdict
    THEN [set |-> TRUE, is_valid |-> FALSE,
          issues |-> <<ValidationIssue("dataclass", "metadata",
                                       "Metadata must be a JSON object.")>>]
    ELSE LET issues ==
                 IF md.arch_img_url \in {"missing", "blank", "nonstring"}
                 THEN <<ValidationIssue("dict", "metadata.arch_img_url",
                          "Architecture image must be a non-empty base64 string.")>>
                 ELSE IF md.arch_img_url = "not_base64"
                 THEN <<ValidationIssue("dict", "metadata.arch_img_url",
                          "arch_img_url is not valid base64-encoded image data.")>>
                 ELSE <<>>
         IN  [set |-> TRUE,
              is_valid |-> ~(\E i \in 1..Len(issues) : issues[i].level = "error"),
              issues |-> issues]

-----------------------------------------------------------------------------
(* Agents, as fn(ctx) of _run_with_sla sees them *)

\* What the environment of an agent call can answer: the reply of the LLM or
\* service the agent awaits.
EnvReplies(agent) ==
    CASE agent = "input_validation"    -> {"normal", "internal_error"}
      [] agent = "image_preprocessing" -> {"normal"}
      [] agent = "demographics"        -> {"json", "not_json", "exception"}
      [] agent = "image_analysis"      -> {"json", "not_json", "upload_failed", "exception"}
      [] agent = "triage"              -> {"json", "not_json", "json_error_key", "exception"}
      [] agent = "remediation"         -> {"json", "exception"}
      [] agent = "formatting"          -> {"normal"}

\* A call's outcome: raised (with str(e) in exc), or a returned result that
\* may have an `error` attribute; slot is what the agent left in its slot of
\* the context and degraded tells that the agent caught an error of its own.
Returned(slot, degraded) ==
    [raised |-> FALSE, exc |-> "", has_error |-> FALSE, error |-> "",
     slot |-> slot, degraded |-> degraded]

ReturnedError(slot, error) ==
    [raised |-> FALSE, exc |-> "", has_error |-> TRUE, error |-> error,
     slot |-> slot, degraded |-> TRUE]

Raised(slot, e) ==
    [raised |-> TRUE, exc |-> e, has_error |-> FALSE, error |-> "",
     slot |-> slot, degraded |-> FALSE]

\* ImagePreprocessor.run: never raises; on any error returns _Fail, an
\* object with a non-empty `error`.
ImagePreprocessor_run(c, reply) ==
    IF c.metadata.arch_img_url = "b64_image"
    THEN Returned("ok", FALSE)
    ELSE ReturnedError("None", "Image preprocessing failed")

\* DemographicsAgent.run: the LLM call may raise; on unparsable output it
\* builds DemographicsResult(error=...), a keyword the dataclass does not
\* have, so the handler itself raises TypeError.
DemographicsAgent_run(c, reply) ==
    CASE reply = "json"      -> Returned("ok", FALSE)
      [] reply = "not_json"  -> Raised("None", "TypeError: unexpected keyword argument 'error'")
      [] reply = "exception" -> Raised("None", "demographics LLM call failed")

\* ImageAnalyzerAgent.run: decode and upload failures and unparsable LLM
\* output give an ImageAnalysisResult without `error`; the LLM call itself is
\* not guarded.
ImageAnalyzerAgent_run(c, reply) ==
    CASE reply = "json"          -> Returned("ok", FALSE)
      [] reply = "not_json"      -> Returned("degraded", TRUE)
      [] reply = "upload_failed" -> Returned("degraded", TRUE)
      [] reply = "exception"     -> Raised("None", "image analysis LLM call failed")

\* TriageAgent.run: the LLM call may raise; unparsable output gives
\* TriageExtraction(fields={"notes": "Error parsing LLM output..."}), which
\* has no `error` attribute; TriageExtraction allows extra fields, so a JSON
\* reply with an "error" key gives a result whose `error` is that value.
TriageAgent_run(c, reply) ==
    CASE reply = "json"           -> Returned("ok", FALSE)
      [] reply = "not_json"       -> Returned("degraded", TRUE)
      [] reply = "json_error_key" -> ReturnedError("ok", "error reported by triage LLM")
      [] reply = "exception"      -> Raised("empty", "triage LLM call failed")

\* RemediationAgent.run: nothing is guarded around the template lookup.
RemediationAgent_run(c, reply) ==
    CASE reply = "json"      -> Returned("ok", FALSE)
      [] reply = "exception" -> Raised("None", "remediation failed")

\* FormattingAgent.format_success_response(self, ctx, plan) is passed to
\* _run_with_sla, which calls fn(ctx): the call is short of the positional
\* argument `plan` and raises TypeError before the body runs.
format_success_response(c, reply) ==
    Raised("None", "TypeError: missing 1 required positional argument: 'plan'")

\* fn(ctx) for the fn that review passes under the name `agent`.
AgentCall(agent, c, reply) ==
    CASE agent = "input_validation"    -> Returned("validation", reply = "internal_error")
      [] agent = "image_preprocessing" -> ImagePreprocessor_run(c, reply)
      [] agent = "demographics"        -> DemographicsAgent_run(c, reply)
      [] agent = "image_analysis"      -> ImageAnalyzerAgent_run(c, reply)
      [] agent = "triage"              -> TriageAgent_run(c, reply)
      [] agent = "remediation"         -> RemediationAgent_run(c, reply)
      [] agent = "formatting"          -> format_success_response(c, reply)

\* RemediationAgent.run, lines 234-239, reached when nothing before raised:
\* metadata = getattr(ctx, "metadata", {}) or {} is the submitted dict
\* itself; the agent stores similarity_score in it and makes
\* ctx.computed_metadata a second name of the same dict.
RemediationWrites(c, res) ==
    IF res.raised
    THEN [c EXCEPT !.remediation_result = res.slot]
    ELSE [c EXCEPT !.remediation_result = res.slot,
                   !.metadata.similarity_score = "set",
                   !.computed_metadata = "metadata"]

\* The context after the agent has run: its slot holds what it wrote.
WriteSlot(c, agent, reply, res) ==
    CASE agent = "input_validation"    ->
             [c EXCEPT !.validation_result = validate(c.metadata, reply)]
      [] agent = "image_preprocessing" -> [c EXCEPT !.preprocessed_image = res.slot]
      [] agent = "demographics"        -> [c EXCEPT !.demographics_from_json = res.slot]
      [] agent = "image_analysis"      -> [c EXCEPT !.image_analysis = res.slot]
      [] agent = "triage"              -> [c EXCEPT !.triage_results = res.slot]
      [] agent = "remediation"         -> RemediationWrites(c, res)
      [] agent = "formatting"          -> c

-----------------------------------------------------------------------------
(* _run_with_sla *)

\* Mutant of SlaRaises: the `error` attribute of a returned result is not
\* looked at.
SlaRaises_IgnoresErrorAttr(res) == res.raised

\* `hasattr(result, "error") and result.error` raises RuntimeError; a raise
\* of fn itself passes through.
SlaRaises(res) == res.raised \/ (res.has_error /\ res.error # "")

\* The handler re-raises a different exception than the one it caught.
SlaException_Generic(res) == "RuntimeError"

SlaException(res) == IF res.raised THEN res.exc ELSE res.error

SlaStatus(res) == IF SlaRaises(res) THEN "failed" ELSE "success"

\* The finally block: one record per call.
SlaRecord(agent, res) == [agent |-> agent, status |-> SlaStatus(res)]

\* The append is skipped when the call fails.
SlaAppend_SkipsOnFailure(agent_sla, agent, res) ==
    IF SlaRaises(res) THEN agent_sla ELSE Append(agent_sla, SlaRecord(agent, res))

\* The record is inserted at the head of the list.
SlaAppend_InsertsAtHead(agent_sla, agent, res) ==
    <<SlaRecord(agent, res)>> \o agent_sla

\* finally: ctx.agent_sla.append({...}) -- on return and on raise alike.
SlaAppend(agent_sla, agent, res) == Append(agent_sla, SlaRecord(agent, res))

NoResult ==
    [raised |-> FALSE, exc |-> "", has_error |-> FALSE, error |-> "",
     slot |-> "None", degraded |-> FALSE]

\* The handler of _run_with_sla swallows the exception: the result is
\* returned to review whatever it is.
SlaOutcome_SwallowsFailure(res) == [kind |-> "return", exc |-> "", result |-> res]

\* What the caller of _run_with_sla gets: `return result`, or the exception
\* that leaves the try block through `except Exception: ...; raise`.
SlaOutcome(res) ==
    IF SlaRaises(res)
    THEN [kind |-> "raise", exc |-> SlaException(res), result |-> NoResult]
    ELSE [kind |-> "return", exc |-> "", result |-> res]

-----------------------------------------------------------------------------
(* Scoring: ScoringAgent.score and the arithmetic of _run_scoring.  Weights  *)
(* are in tenths and normalized scores in tenths of a point, so that the    *)
(* sums and quotients are integers.                                         *)

\* AGENT_WEIGHTS, in tenths.
AGENT_WEIGHTS ==
    [demographics |-> 1, image_analysis |-> 4, remediation |-> 4, formatting |-> 1]

Dimensions == {"accuracy", "bias", "hallucination", "confidence"}

\* The integers the judge may put in a dimension: below, inside and above 1-10.
JudgeInts == {0, 6, 12}

\* The four integers of a judge reply: all four the same, or one of them
\* away from 6.
JudgeScores ==
    {r \in [accuracy : JudgeInts, bias : JudgeInts, hallucination : JudgeInts,
            confidence : JudgeInts] :
        \/ \A k \in Dimensions : r[k] = r.accuracy
        \/ Cardinality({k \in Dimensions : r[k] # 6}) = 1}

\* What `await self._agent.run(user_prompt)` and the parse of its text give:
\* an exception of the call, text that is not JSON or not a JudgeSchema
\* (a dimension missing or not an integer), or four integers.
JudgeReplies ==
    [kind : {"exception", "invalid"}, accuracy : {0}, bias : {0},
     hallucination : {0}, confidence : {0}]
    \cup {[kind |-> "scores", accuracy |-> r.accuracy, bias |-> r.bias,
           hallucination |-> r.hallucination, confidence |-> r.confidence] :
             r \in JudgeScores}

Min(a, b) == IF a < b THEN a ELSE b
Max(a, b) == IF a > b THEN a ELSE b

\* The judge's integer is passed on as it is.
clamp_Unclamped(val) == val

\* clamp: max(1, min(10, int(val)))
clamp(val) == Max(1, Min(10, val))

\* ScoringAgent.score: both handlers log and re-raise.
ScoreRaises(reply) == reply.kind # "scores"

ScoringAgent_score(reply) ==
    [accuracy |-> clamp(reply.accuracy), bias |-> clamp(reply.bias),
     hallucination |-> clamp(reply.hallucination), confidence |-> clamp(reply.confidence)]

NoScore == [k \in Dimensions |-> 0]

\* One call of scorer.score: the trace's agent, what the judge answered,
\* whether score returned, and the score it returned.
Judged(agent, reply) ==
    [agent |-> agent, kind |-> reply.kind, returned |-> ~ScoreRaises(reply),
     score |-> IF ScoreRaises(reply) THEN NoScore ELSE ScoringAgent_score(reply)]

\* round(n / d, 0) for integers n >= 0, d > 0: Python rounds half to even.
RoundDiv(n, d) ==
    LET q == n \div d
        r == n % d
    IN  IF 2 * r < d THEN q
        ELSE IF 2 * r > d THEN q + 1
        ELSE IF q % 2 = 0 THEN q ELSE q + 1

\* The totals are divided by the sum of the whole weight table (10 tenths).
OverallDimensions_FullWeightTable(dimension_totals, weight_total) ==
    [k \in Dimensions |-> RoundDiv(10 * dimension_totals[k], 10)]

\* overall_dimensions: round(v / weight_total, 1), in tenths.
OverallDimensions(dimension_totals, weight_total) ==
    [k \in Dimensions |-> RoundDiv(10 * dimension_totals[k], weight_total)]

\* The mean is cut off after the first decimal instead of rounded.
OverallScore_Truncated(od) ==
    (od["accuracy"] + od["bias"] + od["hallucination"] + od["confidence"]) \div 4

\* overall_score: round(sum(overall_dimensions.values()) / 4, 1), in tenths.
OverallScore(od) ==
    RoundDiv(od["accuracy"] + od["bias"] + od["hallucination"] + od["confidence"], 4)

\* Locals of _run_scoring before the pass has started.
NoScoring ==
    [started |-> FALSE, i |-> 1, judged |-> <<>>, per_agent |-> EmptyMap,
     dimension_totals |-> [k \in Dimensions |-> 0], weight_total |-> 0]

-----------------------------------------------------------------------------
(* Payloads and the failure responder *)

NoPayload ==
    [keys |-> {}, review_id |-> "", status |-> "", stage |-> "", issues |-> <<>>]

\* str(e) handed to _fail by review's exception handler, as an issue.
StrIssue(s) == [form |-> "str", field |-> "", message |-> s, level |-> ""]

\* str(i) of an issue: the text itself for a string, the repr of the dict
\* for a dict.
Str(i) ==
    IF i.form = "str" THEN <<i.message>>
    ELSE <<"{'field': ", i.field, ", 'message': ", i.message, ", 'level': ", i.level, "}">>

\* One element of failure_details:
\*   asdict(i) if is_dataclass(i) else {"message": str(i)}
FailureDetail(i) ==
    IF i.form = "dataclass"
    THEN [keys |-> {"field", "message", "level"},
          field |-> i.field, message |-> <<i.message>>, level |-> i.level]
    ELSE [keys |-> {"message"}, field |-> "", message |-> Str(i), level |-> ""]

FailureDetails(issues) == [k \in 1..Len(issues) |-> FailureDetail(issues[k])]

\* The dict format_failure_response returns when its LLM call returns.
format_failure_response(c, failure_details, failure_stage) ==
    [keys |-> {"review_id", "status", "stage", "issues", "message"},
     review_id |-> c.review_id, status |-> "failure",
     stage |-> failure_stage, issues |-> failure_details]

NoFailArgs == [stage |-> "", issues |-> <<>>, site |-> ""]

-----------------------------------------------------------------------------
(* Progress events *)

\* progress_cb: sse_event("stage", {stage, status, payload})
StageEvent(stage, status) == [event |-> "stage", stage |-> stage, status |-> status]

\* sse_event("final", result)
FinalEvent(result) == [event |-> "final", stage |-> result.stage, status |-> result.status]

\* sse_event("error", {"message": str(e)})
ErrorEvent == [event |-> "error", stage |-> "", status |-> ""]

\* The None that ends the stream.
Sentinel == [event |-> "None", stage |-> "", status |-> ""]

\* await queue.put(item): the queue is unbounded, the put never waits.
Put(item) ==
    /\ queue' = Append(queue, item)
    /\ produced' = Append(produced, item)

-----------------------------------------------------------------------------
(* review: the statements of its try block, lines 73-114, in order *)

Emit(stage, status) == [op |-> "emit", stage |-> stage, status |-> status, agent |-> ""]
Call(agent) == [op |-> "call", stage |-> "", status |-> "", agent |-> agent]
CheckValid == [op |-> "check_valid", stage |-> "", status |-> "", agent |-> ""]

\* The statements of review with triage called before image_analysis.
ReviewSteps_TriageBeforeImageAnalysis ==
    << Emit("input_validation", "started"),
       Call("input_validation"),
       Emit("Validating_user_inputs", "completed"),
       CheckValid,
       Emit("image_being_preprocessed", "started"),
       Call("image_preprocessing"),
       Emit("image_preprocessed", "completed"),
       Emit("Parsing_Architecture_Specific_details", "started"),
       Call("demographics"),
       Emit("Parsed_Architecture_details", "completed"),
       Call("triage"),
       Emit("image_analysis", "started"),
       Call("image_analysis"),
       Emit("image_analysis", "completed"),
       Emit("Comparing_Current_Architecture_&_Standard_Practices", "started"),
       Call("remediation"),
       Emit("Comparison", "completed"),
       Emit("formatting_user_response", "started"),
       Call("formatting"),
       Emit("Response_is_almost_ready", "completed") >>

\* The statements of review with the demographics call retried once.
ReviewSteps_DemographicsTwice ==
    << Emit("input_validation", "started"),
       Call("input_validation"),
       Emit("Validating_user_inputs", "completed"),
       CheckValid,
       Emit("image_being_preprocessed", "started"),
       Call("image_preprocessing"),
       Emit("image_preprocessed", "completed"),
       Emit("Parsing_Architecture_Specific_details", "started"),
       Call("demographics"),
       Call("demographics"),
       Emit("Parsed_Architecture_details", "completed"),
       Emit("image_analysis", "started"),
       Call("image_analysis"),
       Emit("image_analysis", "completed"),
       Call("triage"),
       Emit("Comparing_Current_Architecture_&_Standard_Practices", "started"),
       Call("remediation"),
       Emit("Comparison", "completed"),
       Emit("formatting_user_response", "started"),
       Call("formatting"),
       Emit("Response_is_almost_ready", "completed") >>

ReviewSteps ==
    << Emit("input_validation", "started"),
       Call("input_validation"),
       Emit("Validating_user_inputs", "completed"),
       CheckValid,
       Emit("image_being_preprocessed", "started"),
       Call("image_preprocessing"),
       Emit("image_preprocessed", "completed"),
       Emit("Parsing_Architecture_Specific_details", "started"),
       Call("demographics"),
       Emit("Parsed_Architecture_details", "completed"),
       Emit("image_analysis", "started"),
       Call("image_analysis"),
       Emit("image_analysis", "completed"),
       Call("triage"),
       Emit("Comparing_Current_Architecture_&_Standard_Practices", "started"),
       Call("remediation"),
       Emit("Comparison", "completed"),
       Emit("formatting_user_response", "started"),
       Call("formatting"),
       Emit("Response_is_almost_ready", "completed") >>

\* The agents in the order review calls them.
Pipeline ==
    <<"input_validation", "image_preprocessing", "demographics", "image_analysis",
      "triage", "remediation", "formatting">>

\* After the last statement of the list comes the scoring pass.
Advance ==
    IF step < Len(ReviewSteps)
    THEN /\ step' = step + 1
         /\ pc' = "try"
    ELSE /\ step' = step
         /\ pc' = "scoring"

\* No _run_with_sla call is being followed read by read.
NoSlaCall ==
    [pc |-> "idle", agent |-> "", reply |-> "", start_ts |-> 0, start_iso |-> 0,
     end_ts |-> 0, status |-> ""]

\* Stages as they come out of json.loads: any value at all.
NoStagesRaw == [islist |-> FALSE, items |-> <<>>]

NoPlanOut == [kind |-> "none", exc |-> "", stages |-> <<>>, notes |-> ""]

NoOracleReply == [kind |-> "none", stages |-> NoStagesRaw, notes |-> "missing"]

\* No PlannerAgent.plan call.
NoPlanCall == [pc |-> "idle", reply |-> NoOracleReply, out |-> NoPlanOut]

\* No request is being served.
NoApp == [orchestrator |-> "none", locals |-> <<>>, contexts |-> <<>>,
          queues |-> <<>>, last |-> 0]

Init ==
    /\ metadata \in MetadataValues
    /\ pc = "start"
    /\ step = 1
    /\ ctx = NoContext
    /\ exc = ""
    /\ fail_args = NoFailArgs
    /\ payload = NoPayload
    /\ review_out = "none"
    /\ calls = <<>>
    /\ fail_calls = <<>>
    /\ log_calls = <<>>
    /\ sc = NoScoring
    /\ queue = <<>>
    /\ produced = <<>>
    /\ yielded = <<>>
    /\ cpc = "is_disconnected"
    /\ disconnected = FALSE
    /\ clock = 0
    /\ sla = NoSlaCall
    /\ planner = NoPlanCall
    /\ app = NoApp

\* review, lines 64-65: metadata.get("REQUEST_NO", ...) is outside the try
\* block; a metadata value that is not a dict has no get and the
\* AttributeError leaves review.
ReviewStart ==
    /\ pc = "start"
    /\ IF metadata.isdict
       THEN /\ ctx' = ReviewSessionContext(metadata)
            /\ pc' = "try"
            /\ UNCHANGED <<exc, review_out>>
       ELSE /\ exc' = "AttributeError: object has no attribute 'get'"
            /\ review_out' = "raised"
            /\ pc' = "run_review_except"
            /\ UNCHANGED ctx
    /\ UNCHANGED <<metadata, step, fail_args, payload, calls, fail_calls, log_calls,
                   queue, produced, sc, consumer_vars, disconnected>>
    /\ UNCHANGED aux_vars

\* await emit(stage, status, ...)
ReviewEmit ==
    /\ pc = "try"
    /\ ReviewSteps[step].op = "emit"
    /\ Put(StageEvent(ReviewSteps[step].stage, ReviewSteps[step].status))
    /\ Advance
    /\ UNCHANGED <<metadata, ctx, exc, fail_args, payload, review_out, calls,
                   fail_calls, log_calls, sc, consumer_vars, disconnected>>
    /\ UNCHANGED aux_vars

\* await self._run_with_sla(ctx, agent, fn)
ReviewCall ==
    /\ pc = "try"
    /\ ReviewSteps[step].op = "call"
    /\ LET agent == ReviewSteps[step].agent IN
       \E reply \in EnvReplies(agent) :
         LET res == AgentCall(agent, ctx, reply)
             after == WriteSlot(ctx, agent, reply, res)
             seen == SlaOutcome(res)
         IN  /\ calls' = Append(calls, [agent |-> agent, reply |-> reply,
                                        result |-> res, seen |-> seen])
             /\ ctx' = [after EXCEPT !.agent_sla = SlaAppend(@, agent, res)]
             /\ IF seen.kind = "raise"
                THEN /\ exc' = seen.exc
                     /\ pc' = "except"
                     /\ step' = step
                ELSE /\ exc' = exc
                     /\ Advance
    /\ UNCHANGED <<metadata, fail_args, payload, review_out, fail_calls, log_calls,
                   queue, produced, sc, consumer_vars, disconnected>>
    /\ UNCHANGED aux_vars

\* if not validation.is_valid: payload = await self._fail(ctx,
\* "input_validation", validation.issues, emit)
ReviewCheckValid ==
    /\ pc = "try"
    /\ ReviewSteps[step].op = "check_valid"
    /\ IF ~ctx.validation_result.is_valid
       THEN /\ fail_args' = [stage |-> "input_validation",
                             issues |-> ctx.validation_result.issues,
                             site |-> "try"]
            /\ pc' = "fail"
            /\ step' = step
       ELSE /\ fail_args' = fail_args
            /\ Advance
    /\ UNCHANGED <<metadata, ctx, exc, payload, review_out, calls, fail_calls,
                   log_calls, queue, produced, sc, consumer_vars, disconnected>>
    /\ UNCHANGED aux_vars

\* except Exception as e: payload = await self._fail(ctx, "orchestration",
\* [str(e)], emit)
ReviewExcept ==
    /\ pc = "except"
    /\ fail_args' = [stage |-> "orchestration", issues |-> <<StrIssue(exc)>>,
                     site |-> "handler"]
    /\ exc' = ""
    /\ pc' = "fail"
    /\ UNCHANGED <<metadata, step, ctx, payload, review_out, calls, fail_calls,
                   log_calls, queue, produced, sc, consumer_vars, disconnected>>
    /\ UNCHANGED aux_vars

\* _fail, lines 164-171: format_failure_response awaits the formatter's LLM,
\* which returns or raises; nothing in _fail or in format_failure_response
\* catches the raise.  Raised inside the try block it reaches review's
\* handler; raised inside the handler it leaves review.
Fail ==
    /\ pc = "fail"
    /\ LET failure_details == FailureDetails(fail_args.issues) IN
       \E llm \in {"text", "exception"} :
         /\ fail_calls' = Append(fail_calls,
                [stage |-> fail_args.stage, issues |-> failure_details, llm |-> llm])
         /\ IF llm = "text"
            THEN /\ payload' = format_failure_response(ctx, failure_details, fail_args.stage)
                 /\ pc' = "fail_emit"
                 /\ UNCHANGED <<exc, review_out>>
            ELSE /\ payload' = payload
                 /\ exc' = "failure formatter LLM call failed"
                 /\ IF fail_args.site = "try"
                    THEN /\ pc' = "except"
                         /\ review_out' = review_out
                    ELSE /\ pc' = "run_review_except"
                         /\ review_out' = "raised"
    /\ UNCHANGED <<metadata, step, ctx, fail_args, calls, log_calls, queue, produced,
                   sc, consumer_vars, disconnected>>
    /\ UNCHANGED aux_vars

\* _fail, lines 172-173: await emit("formatting", "completed_failure", payload)
FailEmit ==
    /\ pc = "fail_emit"
    /\ Put(StageEvent("formatting", "completed_failure"))
    /\ pc' = "log"
    /\ UNCHANGED <<metadata, step, ctx, exc, fail_args, payload, review_out, calls,
                   fail_calls, log_calls, sc, consumer_vars, disconnected>>
    /\ UNCHANGED aux_vars

\* _log: self._logger.log(ctx.review_id, asdict(ctx)); an exception of the
\* sink is caught and printed.
Log ==
    /\ pc = "log"
    /\ \E sink \in {"stored", "exception"} :
         log_calls' = Append(log_calls,
                             [review_id |-> ctx.review_id, snapshot |-> ctx, sink |-> sink])
    /\ pc' = "return"
    /\ UNCHANGED <<metadata, step, ctx, exc, fail_args, payload, review_out, calls,
                   fail_calls, queue, produced, sc, consumer_vars, disconnected>>
    /\ UNCHANGED aux_vars

-----------------------------------------------------------------------------
(* _run_scoring *)

\* Line 180: scorer = ScoringAgent() stands before the try block of
\* _run_scoring; when the constructor raises, the exception leaves
\* _run_scoring and reaches review's handler.
ScoringConstruct ==
    /\ pc = "scoring"
    /\ \E r \in {"constructed", "exception"} :
         IF r = "constructed"
         THEN /\ pc' = "scoring_emit"
              /\ exc' = exc
         ELSE /\ pc' = "except"
              /\ exc' = "ScoringAgent() failed"
    /\ sc' = [NoScoring EXCEPT !.started = TRUE]
    /\ UNCHANGED <<metadata, step, ctx, fail_args, payload, review_out, calls,
                   fail_calls, log_calls, queue, produced, consumer_vars, disconnected>>
    /\ UNCHANGED aux_vars

\* Line 182: await emit("Evaluating_the_Responses", "started", ...)
ScoringEmit ==
    /\ pc = "scoring_emit"
    /\ Put(StageEvent("Evaluating_the_Responses", "started"))
    /\ pc' = "scoring_loop"
    /\ UNCHANGED <<metadata, step, ctx, exc, fail_args, payload, review_out, calls,
                   fail_calls, log_calls, sc, consumer_vars, disconnected>>
    /\ UNCHANGED aux_vars

\* Lines 195-212: one iteration of `for trace in ctx.llm_traces`.
ScoreTrace ==
    /\ pc = "scoring_loop"
    /\ sc.i <= Len(ctx.llm_traces)
    /\ LET agent == ctx.llm_traces[sc.i] IN
       IF agent \notin DOMAIN AGENT_WEIGHTS
       THEN /\ sc' = [sc EXCEPT !.i = @ + 1]
            /\ UNCHANGED <<pc, exc, queue, produced>>
       ELSE \E reply \in JudgeReplies :
              IF ScoreRaises(reply)
              THEN /\ sc' = [sc EXCEPT !.judged = Append(@, Judged(agent, reply))]
                   /\ exc' = "ScoringAgent.score failed"
                   /\ pc' = "scoring_except"
                   /\ UNCHANGED <<queue, produced>>
              ELSE LET score == ScoringAgent_score(reply) IN
                   /\ sc' = [sc EXCEPT
                        !.i = @ + 1,
                        !.judged = Append(@, Judged(agent, reply)),
                        !.per_agent =
                            [a \in DOMAIN sc.per_agent \cup {agent} |->
                               IF a = agent
                               THEN [score |-> score, weight |-> AGENT_WEIGHTS[agent]]
                               ELSE sc.per_agent[a]],
                        !.dimension_totals =
                            [k \in Dimensions |-> @[k] + score[k] * AGENT_WEIGHTS[agent]],
                        !.weight_total = @ + AGENT_WEIGHTS[agent]]
                   /\ Put(StageEvent("Evaluating_agent_responses", "agent_completed"))
                   /\ UNCHANGED <<pc, exc>>
    /\ UNCHANGED <<metadata, step, ctx, fail_args, payload, review_out, calls,
                   fail_calls, log_calls, consumer_vars, disconnected>>
    /\ UNCHANGED aux_vars

\* Lines 214-242: after the loop; v / weight_total raises ZeroDivisionError
\* when no trace was judged.
ScoringFinish ==
    /\ pc = "scoring_loop"
    /\ sc.i > Len(ctx.llm_traces)
    /\ IF sc.weight_total = 0
       THEN /\ exc' = "ZeroDivisionError: float division by zero"
            /\ pc' = "scoring_except"
            /\ UNCHANGED <<ctx, queue, produced>>
       ELSE LET od == OverallDimensions(sc.dimension_totals, sc.weight_total) IN
            /\ ctx' = [ctx EXCEPT !.review_scores =
                         [status |-> "success", error |-> "", per_agent |-> sc.per_agent,
                          overall |-> [k \in Dimensions \cup {"score"} |->
                                         IF k = "score" THEN OverallScore(od) ELSE od[k]]]]
            /\ Put(StageEvent("evaluating_agent_responses", "completed"))
            /\ pc' = "log"
            /\ exc' = exc
    /\ UNCHANGED <<metadata, step, fail_args, payload, review_out, calls,
                   fail_calls, log_calls, sc, consumer_vars, disconnected>>
    /\ UNCHANGED aux_vars

\* Lines 244-246: except Exception as e
ScoringExcept ==
    /\ pc = "scoring_except"
    /\ ctx' = [ctx EXCEPT !.review_scores =
                 [status |-> "failed", error |-> exc, per_agent |-> EmptyMap,
                  overall |-> EmptyMap]]
    /\ exc' = ""
    /\ Put(StageEvent("scoring", "failed"))
    /\ pc' = "log"
    /\ UNCHANGED <<metadata, step, fail_args, payload, review_out, calls,
                   fail_calls, log_calls, sc, consumer_vars, disconnected>>
    /\ UNCHANGED aux_vars

-----------------------------------------------------------------------------
(* run_review, the producer task of the endpoint *)

\* result = await orchestrator.review(...); await queue.put(sse_event("final", result))
RunReviewFinal ==
    /\ pc = "return"
    /\ review_out' = "returned"
    /\ Put(FinalEvent(payload))
    /\ pc' = "run_review_finally"
    /\ UNCHANGED <<metadata, step, ctx, exc, fail_args, payload, calls, fail_calls,
                   log_calls, sc, consumer_vars, disconnected>>
    /\ UNCHANGED aux_vars

\* Mutant of RunReviewExcept: the handler puts no "error" event.
RunReviewExcept_NoErrorEvent ==
    /\ pc = "run_review_except"
    /\ pc' = "run_review_finally"
    /\ UNCHANGED <<metadata, step, ctx, exc, fail_args, payload, review_out, calls,
                   fail_calls, log_calls, sc, queue, produced, consumer_vars, disconnected>>
    /\ UNCHANGED aux_vars

\* except Exception as e: await queue.put(sse_event("error", {"message": str(e)}))
RunReviewExcept ==
    /\ pc = "run_review_except"
    /\ Put(ErrorEvent)
    /\ pc' = "run_review_finally"
    /\ UNCHANGED <<metadata, step, ctx, exc, fail_args, payload, review_out, calls,
                   fail_calls, log_calls, sc, consumer_vars, disconnected>>
    /\ UNCHANGED aux_vars

\* The finally block puts nothing.
RunReviewFinally_NoSentinel ==
    /\ pc = "run_review_finally"
    /\ pc' = "done"
    /\ UNCHANGED <<metadata, step, ctx, exc, fail_args, payload, review_out, calls,
                   fail_calls, log_calls, sc, queue, produced, consumer_vars, disconnected>>
    /\ UNCHANGED aux_vars

\* finally: await queue.put(None)
RunReviewFinally ==
    /\ pc = "run_review_finally"
    /\ Put(Sentinel)
    /\ pc' = "done"
    /\ UNCHANGED <<metadata, step, ctx, exc, fail_args, payload, review_out, calls,
                   fail_calls, log_calls, sc, consumer_vars, disconnected>>
    /\ UNCHANGED aux_vars

-----------------------------------------------------------------------------
(* event_generator, the consumer, and the subscriber *)

\* if await request.is_disconnected(): break
IsDisconnected ==
    /\ cpc = "is_disconnected"
    /\ cpc' = IF disconnected THEN "stopped" ELSE "get"
    /\ UNCHANGED <<producer_vars, queue, produced, yielded, disconnected>>
    /\ UNCHANGED aux_vars

\* The consumer takes the newest item of the queue instead of the oldest.
QueueGet_TakesNewest ==
    /\ cpc = "get"
    /\ queue # <<>>
    /\ queue' = SubSeq(queue, 1, Len(queue) - 1)
    /\ IF queue[Len(queue)] = Sentinel
       THEN /\ cpc' = "stopped"
            /\ yielded' = yielded
       ELSE /\ cpc' = "is_disconnected"
            /\ yielded' = Append(yielded, queue[Len(queue)])
    /\ UNCHANGED <<producer_vars, produced, disconnected>>
    /\ UNCHANGED aux_vars

\* chunk = await queue.get(); if chunk is None: break; yield chunk
QueueGet ==
    /\ cpc = "get"
    /\ queue # <<>>
    /\ queue' = Tail(queue)
    /\ IF Head(queue) = Sentinel
       THEN /\ cpc' = "stopped"
            /\ yielded' = yielded
       ELSE /\ cpc' = "is_disconnected"
            /\ yielded' = Append(yielded, Head(queue))
    /\ UNCHANGED <<producer_vars, produced, disconnected>>
    /\ UNCHANGED aux_vars

\* except asyncio.CancelledError: pass -- the response is torn down while
\* the generator waits on the queue.
Cancelled ==
    /\ cpc = "get"
    /\ disconnected
    /\ cpc' = "stopped"
    /\ UNCHANGED <<producer_vars, queue, produced, yielded, disconnected>>
    /\ UNCHANGED aux_vars

\* The subscriber goes away and the orchestration task is cancelled with it.
Disconnect_CancelsReview ==
    /\ ~disconnected
    /\ cpc # "stopped"
    /\ disconnected' = TRUE
    /\ pc' = "done"
    /\ UNCHANGED <<metadata, step, ctx, exc, fail_args, payload, review_out, calls,
                   fail_calls, log_calls, sc, queue, produced, consumer_vars>>
    /\ UNCHANGED aux_vars

\* The subscriber goes away.
Disconnect ==
    /\ ~disconnected
    /\ cpc # "stopped"
    /\ disconnected' = TRUE
    /\ UNCHANGED <<producer_vars, queue, produced, consumer_vars>>
    /\ UNCHANGED aux_vars

Next ==
    \/ ReviewStart
    \/ ReviewEmit
    \/ ReviewCall
    \/ ReviewCheckValid
    \/ ReviewExcept
    \/ Fail
    \/ FailEmit
    \/ Log
    \/ RunReviewFinal
    \/ RunReviewExcept
    \/ RunReviewFinally
    \/ IsDisconnected
    \/ QueueGet
    \/ Cancelled
    \/ Disconnect

Spec == Init /\ [][Next]_vars

-----------------------------------------------------------------------------
(* The scoring pass on its own: lines 116-126 of review, entered with a    *)
(* session whose every call of the try block has returned and whose        *)
(* llm_traces hold up to MaxTraces traces.                                 *)

MaxTraces == 3

\* The agents a trace may name: weighted ones and one without a weight.
TraceAgents == {"demographics", "image_analysis", "triage"}

TraceLists == UNION {[1..n -> TraceAgents] : n \in 0..MaxTraces}

\* The dict format_success_response returns: it has no "stage" key.
SuccessPayload ==
    [keys |-> {"review_id", "status", "planner", "agents", "missing_agents",
               "last_agent_summary"},
     review_id |-> REVIEW_ID, status |-> "success", stage |-> "", issues |-> <<>>]

ValidMetadata ==
    [isdict |-> TRUE, arch_img_url |-> "b64_image", similarity_score |-> "absent"]

EmittedBeforeScoring ==
    LET emits == SelectSeq(ReviewSteps, LAMBDA st : st.op = "emit")
    IN  [k \in 1..Len(emits) |-> StageEvent(emits[k].stage, emits[k].status)]

ContextBeforeScoring(traces) ==
    [ReviewSessionContext(ValidMetadata) EXCEPT
        !.validation_result = validate(ValidMetadata, "normal"),
        !.preprocessed_image = "ok",
        !.demographics_from_json = "ok",
        !.image_analysis = "ok",
        !.triage_results = "ok",
        !.remediation_result = "ok",
        !.metadata.similarity_score = "set",
        !.computed_metadata = "metadata",
        !.agent_sla = [k \in 1..Len(Pipeline) |->
                          [agent |-> Pipeline[k], status |-> "success"]],
        !.llm_traces = traces]

InitScoring ==
    /\ metadata = ValidMetadata
    /\ pc = "scoring"
    /\ step = Len(ReviewSteps)
    /\ \E traces \in TraceLists : ctx = ContextBeforeScoring(traces)
    /\ exc = ""
    /\ fail_args = NoFailArgs
    /\ payload = SuccessPayload
    /\ review_out = "none"
    /\ calls = [k \in 1..Len(Pipeline) |->
                  [agent |-> Pipeline[k], reply |-> "normal",
                   result |-> Returned("ok", FALSE),
                   seen |-> SlaOutcome(Returned("ok", FALSE))]]
    /\ fail_calls = <<>>
    /\ log_calls = <<>>
    /\ sc = NoScoring
    /\ queue = EmittedBeforeScoring
    /\ produced = EmittedBeforeScoring
    /\ yielded = <<>>
    /\ cpc = "is_disconnected"
    /\ disconnected = FALSE
    /\ clock = 0
    /\ sla = NoSlaCall
    /\ planner = NoPlanCall
    /\ app = NoApp

NextScoring ==
    \/ ScoringConstruct
    \/ ScoringEmit
    \/ ScoreTrace
    \/ ScoringFinish
    \/ ScoringExcept
    \/ ReviewExcept
    \/ Fail
    \/ FailEmit
    \/ Log
    \/ RunReviewFinal
    \/ RunReviewExcept
    \/ RunReviewFinally

ScoringSpec == InitScoring /\ [][NextScoring]_vars

-----------------------------------------------------------------------------
(* One _run_with_sla call followed read by read.  time.time() and           *)
(* datetime.now() are four separate reads of the wall clock, in source      *)
(* order: start_ts, start_iso, end_ts and the end_time of the record; the   *)
(* clock is an integer number of milliseconds that may advance between any  *)
(* two of them and never goes back.                                         *)

MaxClock == 3

SlaAgents == {Pipeline[k] : k \in 1..Len(Pipeline)}

\* The dict appended by the finally block, with its time fields:
\* duration_ms is int((end_ts - start_ts) * 1000).
SlaTimedRecord(agent, status, start_iso, end_iso, start_ts, end_ts) ==
    [agent |-> agent, status |-> status, start_time |-> start_iso,
     end_time |-> end_iso, duration_ms |-> end_ts - start_ts]

InitSla ==
    /\ metadata = ValidMetadata
    /\ pc = "try"
    /\ step = 1
    /\ ctx = ReviewSessionContext(ValidMetadata)
    /\ exc = ""
    /\ fail_args = NoFailArgs
    /\ payload = NoPayload
    /\ review_out = "none"
    /\ calls = <<>>
    /\ fail_calls = <<>>
    /\ log_calls = <<>>
    /\ sc = NoScoring
    /\ queue = <<>>
    /\ produced = <<>>
    /\ yielded = <<>>
    /\ cpc = "is_disconnected"
    /\ disconnected = FALSE
    /\ clock = 0
    /\ \E a \in SlaAgents : \E r \in EnvReplies(a) :
          sla = [NoSlaCall EXCEPT !.pc = "start_ts", !.agent = a, !.reply = r]
    /\ planner = NoPlanCall
    /\ app = NoApp

\* Time passes while the call is in progress.
ClockTick ==
    /\ sla.pc \notin {"idle", "done"}
    /\ clock < MaxClock
    /\ clock' = clock + 1
    /\ UNCHANGED <<producer_vars, queue, produced, consumer_vars, disconnected,
                   sla, planner, app>>

\* start_ts = time.time()
SlaReadStartTs ==
    /\ sla.pc = "start_ts"
    /\ sla' = [sla EXCEPT !.start_ts = clock, !.pc = "start_iso"]
    /\ UNCHANGED <<producer_vars, queue, produced, consumer_vars, disconnected,
                   clock, planner, app>>

\* start_iso = datetime.now(timezone.utc).isoformat(); status = "success"
SlaReadStartIso ==
    /\ sla.pc = "start_iso"
    /\ sla' = [sla EXCEPT !.start_iso = clock, !.status = "success", !.pc = "fn"]
    /\ UNCHANGED <<producer_vars, queue, produced, consumer_vars, disconnected,
                   clock, planner, app>>

\* The try block: result = await fn(ctx), the check of result.error, and
\* the handler's status = "failed".
SlaCallFn ==
    /\ sla.pc = "fn"
    /\ LET res == AgentCall(sla.agent, ctx, sla.reply) IN
         /\ calls' = Append(calls, [agent |-> sla.agent, reply |-> sla.reply,
                                    result |-> res, seen |-> SlaOutcome(res)])
         /\ ctx' = WriteSlot(ctx, sla.agent, sla.reply, res)
         /\ sla' = [sla EXCEPT !.status = SlaStatus(res), !.pc = "end_ts"]
    /\ UNCHANGED <<metadata, pc, step, exc, fail_args, payload, review_out,
                   fail_calls, log_calls, sc, queue, produced, consumer_vars,
                   disconnected, clock, planner, app>>

\* finally: end_ts = time.time()
SlaReadEndTs ==
    /\ sla.pc = "end_ts"
    /\ sla' = [sla EXCEPT !.end_ts = clock, !.pc = "append"]
    /\ UNCHANGED <<producer_vars, queue, produced, consumer_vars, disconnected,
                   clock, planner, app>>

\* ctx.agent_sla.append({... "end_time": datetime.now(timezone.utc) ...})
SlaAppendRecord ==
    /\ sla.pc = "append"
    /\ ctx' = [ctx EXCEPT !.agent_sla =
                 Append(@, SlaTimedRecord(sla.agent, sla.status, sla.start_iso,
                                          clock, sla.start_ts, sla.end_ts))]
    /\ sla' = [sla EXCEPT !.pc = "done"]
    /\ UNCHANGED <<metadata, pc, step, exc, fail_args, payload, review_out, calls,
                   fail_calls, log_calls, sc, queue, produced, consumer_vars,
                   disconnected, clock, planner, app>>

NextSla ==
    \/ ClockTick
    \/ SlaReadStartTs
    \/ SlaReadStartIso
    \/ SlaCallFn
    \/ SlaReadEndTs
    \/ SlaAppendRecord

SlaSpec == InitSla /\ [][NextSla]_vars

-----------------------------------------------------------------------------
(* PlannerAgent.plan: the reply of the planning oracle is turned into a     *)
(* PlanDecision.                                                            *)

MaxStages == 2
MaxStageLen == 2

\* agent_registry._AGENTS: the dependencies of each agent.
_AGENTS ==
    [demographics |-> {}, image_analysis |-> {},
     triage |-> {"demographics", "image_analysis"}, remediation |-> {"triage"}]

\* The names of _AGENTS in the order of their declaration.
AgentOrder == <<"demographics", "image_analysis", "triage", "remediation">>

\* _normalize_stages: allowed = {...}
allowed == {"demographics", "image_analysis", "triage", "remediation"}

\* An element of a stage as decoded from JSON: a string, known or not, or a
\* value that is not a string.
NameValues ==
    [isstr : {TRUE}, v : allowed \cup {"unknown_agent"}]
    \cup {[isstr |-> FALSE, v |-> "42"]}

\* An element of `stages`: a list of such elements, or a value that is not a
\* list.
StageValues ==
    {[islist |-> FALSE, names |-> <<>>]}
    \cup {[islist |-> TRUE, names |-> ns] :
             ns \in UNION {[1..n -> NameValues] : n \in 0..MaxStageLen}}

\* raw.get("stages"): missing or not a list, or a list of stage values.
StagesRawValues ==
    {NoStagesRaw}
    \cup {[islist |-> TRUE, items |-> its] :
             its \in UNION {[1..n -> StageValues] : n \in 0..MaxStages}}

\* `await self._agent.run(user_prompt)` and json.loads of its text: the call
\* raises; the text is empty; the text is not JSON; it is JSON but not an
\* object (a list, a string, a number, null); it is an object, with any
\* `stages` and with `notes` missing, a string or something else.
OracleReplies ==
    [kind : {"exception", "empty_text", "not_json", "json_non_object"},
     stages : {NoStagesRaw}, notes : {"missing"}]
    \cup [kind : {"object"}, stages : StagesRawValues,
          notes : {"missing", "string", "nonstring"}]

\* Every string of the stage is kept, known or not.
StageAgents_KeepsUnknownNames(stage) ==
    LET kept == SelectSeq(stage.names, LAMBDA a : a.isstr)
    IN  [k \in 1..Len(kept) |-> kept[k].v]

\* agents = [a for a in stage if isinstance(a, str) and a in allowed]
StageAgents(stage) ==
    LET kept == SelectSeq(stage.names, LAMBDA a : a.isstr /\ a.v \in allowed)
    IN  [k \in 1..Len(kept) |-> kept[k].v]

\* _normalize_stages: [] unless stages_raw is a list; entries that are not
\* lists are skipped, names that are not allowed strings are dropped, and a
\* stage left empty is dropped.
_normalize_stages(stages_raw) ==
    IF ~stages_raw.islist
    THEN <<>>
    ELSE LET per == [k \in 1..Len(stages_raw.items) |->
                        IF stages_raw.items[k].islist
                        THEN StageAgents(stages_raw.items[k])
                        ELSE <<>>]
         IN  SelectSeq(per, LAMBDA st : st # <<>>)

\* A layout that puts triage before the agents it depends on.
FallbackStages_TriageFirst ==
    <<<<"triage">>, <<"demographics", "image_analysis">>, <<"remediation">>>>

\* The layout of the except branch of plan.
FallbackStages == <<<<"demographics", "image_analysis">>, <<"triage">>, <<"remediation">>>>

PlanDecision(stages, notes) ==
    [kind |-> "returned", exc |-> "", stages |-> stages, notes |-> notes]

PlanRaised(e) == [kind |-> "raised", exc |-> e, stages |-> <<>>, notes |-> ""]

\* plan, lines 102-137.  The oracle call is not guarded; json.loads is;
\* raw.get needs raw to be a dict; PlanDecision validates notes as
\* Optional[str].
plan(reply) ==
    CASE reply.kind = "exception" -> PlanRaised("oracle call failed")
      [] reply.kind = "not_json" -> PlanDecision(FallbackStages, "Fallback")
      [] reply.kind = "json_non_object" ->
            PlanRaised("AttributeError: object has no attribute 'get'")
      [] reply.kind = "empty_text" -> PlanDecision(<<>>, "None")
      [] OTHER ->
            IF reply.notes = "nonstring"
            THEN PlanRaised("ValidationError: notes")
            ELSE PlanDecision(_normalize_stages(reply.stages),
                              IF reply.notes = "missing" THEN "None" ELSE "notes")

InitPlan ==
    /\ metadata = ValidMetadata
    /\ pc = "start"
    /\ step = 1
    /\ ctx = ReviewSessionContext(ValidMetadata)
    /\ exc = ""
    /\ fail_args = NoFailArgs
    /\ payload = NoPayload
    /\ review_out = "none"
    /\ calls = <<>>
    /\ fail_calls = <<>>
    /\ log_calls = <<>>
    /\ sc = NoScoring
    /\ queue = <<>>
    /\ produced = <<>>
    /\ yielded = <<>>
    /\ cpc = "is_disconnected"
    /\ disconnected = FALSE
    /\ clock = 0
    /\ sla = NoSlaCall
    /\ \E r \in OracleReplies :
          planner = [pc |-> "call", reply |-> r, out |-> NoPlanOut]
    /\ app = NoApp

\* decision = await planner.plan(ctx)
Plan ==
    /\ planner.pc = "call"
    /\ planner' = [planner EXCEPT !.out = plan(planner.reply), !.pc = "done"]
    /\ UNCHANGED <<producer_vars, queue, produced, consumer_vars, disconnected,
                   clock, sla, app>>

NextPlan == Plan

PlanSpec == InitPlan /\ [][NextPlan]_vars

-----------------------------------------------------------------------------
(* Two requests served by one process.  routes.py line 19 builds one       *)
(* orchestrator for the module; every request gets a queue of its own      *)
(* (line 32) and its run_review task calls orchestrator.review, which      *)
(* builds a context of its own (line 65).  Objects live in app.contexts    *)
(* and app.queues under the identity they were created with; a request's   *)
(* locals hold the references.  The tasks interleave at every await.       *)

Requests == {1, 2}

\* ReviewOrchestrator.__init__, lines 44-52: the agents are stored once; no
\* method assigns a field of the orchestrator afterwards.
Orchestrator == "constructed"

\* Mutant of NewContext: the context is kept in one place for all reviews.
NewContext_Shared(r) == 1

\* review, line 65: ctx = ReviewSessionContext(...) is a new object per call.
NewContext(r) == r

\* Mutant of NewQueue: one queue at module level.
NewQueue_Shared(r) == 1

\* routes.py line 32: queue = asyncio.Queue() is a new object per request.
NewQueue(r) == r

\* body.get("metadata", {}) of the two requests: a valid dict, a dict with
\* an image that fails validation, and a value that is not a dict.
ConcurrentMetadata ==
    { ValidMetadata,
      [isdict |-> TRUE, arch_img_url |-> "not_base64", similarity_score |-> "absent"],
      [isdict |-> FALSE, arch_img_url |-> "missing", similarity_score |-> "absent"] }

\* The locals of run_review and of review for one request.
RequestLocals(md, r) ==
    [metadata |-> md, pc |-> "start", step |-> 1, exc |-> "",
     fail_args |-> NoFailArgs, payload |-> NoPayload,
     ctx |-> 0, queue |-> NewQueue(r)]

InitConcurrent ==
    /\ metadata = ValidMetadata
    /\ pc = "start"
    /\ step = 1
    /\ ctx = ReviewSessionContext(ValidMetadata)
    /\ exc = ""
    /\ fail_args = NoFailArgs
    /\ payload = NoPayload
    /\ review_out = "none"
    /\ calls = <<>>
    /\ fail_calls = <<>>
    /\ log_calls = <<>>
    /\ sc = NoScoring
    /\ queue = <<>>
    /\ produced = <<>>
    /\ yielded = <<>>
    /\ cpc = "is_disconnected"
    /\ disconnected = FALSE
    /\ clock = 0
    /\ sla = NoSlaCall
    /\ planner = NoPlanCall
    /\ \E mds \in [Requests -> ConcurrentMetadata] :
         app = [orchestrator |-> Orchestrator,
                locals       |-> [r \in Requests |-> RequestLocals(mds[r], r)],
                contexts     |-> [k \in Requests |-> NoContext],
                queues       |-> [k \in Requests |-> <<>>],
                last         |-> 0]

\* One step of request r: its new locals, and the objects it wrote.
Step(r, l, contexts, queues) ==
    /\ app' = [orchestrator |-> app.orchestrator,
               locals       |-> [app.locals EXCEPT ![r] = l],
               contexts     |-> contexts,
               queues       |-> queues,
               last         |-> r]
    /\ UNCHANGED <<producer_vars, queue, produced, consumer_vars, disconnected,
                   clock, sla, planner>>

\* await queue.put(item) on the queue the request holds.
PutOn(l, item) == [app.queues EXCEPT ![l.queue] = Append(@, item)]

AdvanceLocals(l) ==
    IF l.step < Len(ReviewSteps)
    THEN [l EXCEPT !.step = @ + 1]
    ELSE [l EXCEPT !.pc = "scoring"]

\* review, lines 64-65
ConcurrentStart(r) ==
    LET l == app.locals[r] IN
    /\ l.pc = "start"
    /\ IF l.metadata.isdict
       THEN Step(r, [l EXCEPT !.ctx = NewContext(r), !.pc = "try"],
                 [app.contexts EXCEPT ![NewContext(r)] = ReviewSessionContext(l.metadata)],
                 app.queues)
       ELSE Step(r, [l EXCEPT !.exc = "AttributeError: object has no attribute 'get'",
                              !.pc = "run_review_except"],
                 app.contexts, app.queues)

\* await emit(stage, status, ...)
ConcurrentEmit(r) ==
    LET l == app.locals[r] IN
    /\ l.pc = "try"
    /\ ReviewSteps[l.step].op = "emit"
    /\ Step(r, AdvanceLocals(l), app.contexts,
            PutOn(l, StageEvent(ReviewSteps[l.step].stage, ReviewSteps[l.step].status)))

\* await self._run_with_sla(ctx, agent, fn)
ConcurrentCall(r) ==
    LET l == app.locals[r] IN
    /\ l.pc = "try"
    /\ ReviewSteps[l.step].op = "call"
    /\ LET agent == ReviewSteps[l.step].agent
           c     == app.contexts[l.ctx]
       IN \E reply \in EnvReplies(agent) :
            LET res   == AgentCall(agent, c, reply)
                after == WriteSlot(c, agent, reply, res)
                seen  == SlaOutcome(res)
            IN  Step(r,
                     IF seen.kind = "raise"
                     THEN [l EXCEPT !.exc = seen.exc, !.pc = "except"]
                     ELSE AdvanceLocals(l),
                     [app.contexts EXCEPT
                        ![l.ctx] = [after EXCEPT !.agent_sla = SlaAppend(@, agent, res)]],
                     app.queues)

\* if not validation.is_valid: payload = await self._fail(...)
ConcurrentCheckValid(r) ==
    LET l == app.locals[r] IN
    /\ l.pc = "try"
    /\ ReviewSteps[l.step].op = "check_valid"
    /\ Step(r,
            IF ~app.contexts[l.ctx].validation_result.is_valid
            THEN [l EXCEPT !.fail_args =
                               [stage |-> "input_validation",
                                issues |-> app.contexts[l.ctx].validation_result.issues,
                                site |-> "try"],
                           !.pc = "fail"]
            ELSE AdvanceLocals(l),
            app.contexts, app.queues)

\* except Exception as e: payload = await self._fail(ctx, "orchestration", ...)
ConcurrentExcept(r) ==
    LET l == app.locals[r] IN
    /\ l.pc = "except"
    /\ Step(r, [l EXCEPT !.fail_args = [stage |-> "orchestration",
                                        issues |-> <<StrIssue(l.exc)>>,
                                        site |-> "handler"],
                         !.exc = "", !.pc = "fail"],
            app.contexts, app.queues)

\* _fail, lines 164-171
ConcurrentFail(r) ==
    LET l == app.locals[r] IN
    /\ l.pc = "fail"
    /\ \E llm \in {"text", "exception"} :
         Step(r,
              IF llm = "text"
              THEN [l EXCEPT !.payload =
                                 format_failure_response(app.contexts[l.ctx],
                                     FailureDetails(l.fail_args.issues), l.fail_args.stage),
                             !.pc = "fail_emit"]
              ELSE [l EXCEPT !.exc = "failure formatter LLM call failed",
                             !.pc = IF l.fail_args.site = "try"
                                    THEN "except" ELSE "run_review_except"],
              app.contexts, app.queues)

\* _fail, lines 172-173
ConcurrentFailEmit(r) ==
    LET l == app.locals[r] IN
    /\ l.pc = "fail_emit"
    /\ Step(r, [l EXCEPT !.pc = "log"], app.contexts,
            PutOn(l, StageEvent("formatting", "completed_failure")))

\* self._log(ctx); return payload
ConcurrentLog(r) ==
    LET l == app.locals[r] IN
    /\ l.pc = "log"
    /\ Step(r, [l EXCEPT !.pc = "return"], app.contexts, app.queues)

\* await queue.put(sse_event("final", result))
ConcurrentFinal(r) ==
    LET l == app.locals[r] IN
    /\ l.pc = "return"
    /\ Step(r, [l EXCEPT !.pc = "run_review_finally"], app.contexts,
            PutOn(l, FinalEvent(l.payload)))

\* await queue.put(sse_event("error", ...))
ConcurrentError(r) ==
    LET l == app.locals[r] IN
    /\ l.pc = "run_review_except"
    /\ Step(r, [l EXCEPT !.pc = "run_review_finally"], app.contexts,
            PutOn(l, ErrorEvent))

\* finally: await queue.put(None)
ConcurrentFinally(r) ==
    LET l == app.locals[r] IN
    /\ l.pc = "run_review_finally"
    /\ Step(r, [l EXCEPT !.pc = "done"], app.contexts, PutOn(l, Sentinel))

NextConcurrent ==
    \E r \in Requests :
        \/ ConcurrentStart(r)
        \/ ConcurrentEmit(r)
        \/ ConcurrentCall(r)
        \/ ConcurrentCheckValid(r)
        \/ ConcurrentExcept(r)
        \/ ConcurrentFail(r)
        \/ ConcurrentFailEmit(r)
        \/ ConcurrentLog(r)
        \/ ConcurrentFinal(r)
        \/ ConcurrentError(r)
        \/ ConcurrentFinally(r)

ConcurrentSpec == InitConcurrent /\ [][NextConcurrent]_vars

-----------------------------------------------------------------------------
(* Properties *)

\* A call failed: fn raised, or returned a result whose `error` is non-empty.
AgentFailed(call) ==
    call.result.raised \/ (call.result.has_error /\ call.result.error # "")

\* C1: once an agent call of the pipeline has failed (raised, or returned a
\* result with a non-empty error), no later agent is invoked in that review:
\* the failed call is the last entry of the history of invocations.
C1_NoAgentAfterFailure ==
    \A i \in 1..Len(calls) : AgentFailed(calls[i]) => i = Len(calls)

\* C1 witness: a finished review in which the image preprocessor returned a
\* result carrying an error and was the last agent invoked.
C1_Witness ==
    /\ pc = "done"
    /\ Len(calls) = 2
    /\ calls[2].agent = "image_preprocessing"
    /\ calls[2].result.has_error
    /\ ~calls[2].result.raised

\* C2: the log sink is invoked exactly once per review: never twice, and
\* once by the time run_review has finished, whatever the outcome.
C2_LogExactlyOnce ==
    /\ Len(log_calls) <= 1
    /\ pc = "done" => Len(log_calls) = 1

WellFormed(p) ==
    /\ "review_id" \in p.keys
    /\ "status" \in p.keys
    /\ p.status \in {"success", "failure"}

\* C3: review never lets an exception escape and, when it has ended, has
\* returned a well-formed payload.
C3_AlwaysWellFormedPayload ==
    /\ review_out # "raised"
    /\ pc = "done" => review_out = "returned" /\ WellFormed(payload)

Terminals == {i \in 1..Len(produced) : produced[i].event \in {"final", "error"}}

\* C4: at most one terminal event ("final" or "error") is ever put on the
\* progress queue, exactly one has been put once run_review has finished,
\* and no stage event is put after it.
C4_OneTerminalEvent ==
    /\ Cardinality(Terminals) <= 1
    /\ pc = "done" => Cardinality(Terminals) = 1
    /\ \A i \in Terminals : \A j \in (i + 1)..Len(produced) : produced[j].event # "stage"

\* C4 witness: run_review has finished a review that raised: the terminal
\* event is "error", after at least one stage event, and the sentinel follows.
C4_Witness ==
    /\ pc = "done"
    /\ review_out = "raised"
    /\ Len(produced) >= 3
    /\ produced[1].event = "stage"
    /\ produced[Len(produced) - 1].event = "error"
    /\ produced[Len(produced)] = Sentinel

\* C5: when an agent hard-fails, the payload returned has status "failure",
\* its stage names the agent that failed and its issues hold the
\* originating error.
C5_FailureStageNamesAgent ==
    \A i \in 1..Len(calls) :
        (review_out = "returned" /\ AgentFailed(calls[i])) =>
            /\ payload.status = "failure"
            /\ payload.stage = calls[i].agent
            /\ \E k \in 1..Len(payload.issues) :
                  payload.issues[k].message = <<SlaException(calls[i].result)>>

\* C6: whatever fails inside the scoring pass (the construction of the
\* scorer, a judge call, the aggregation), review returns the success
\* payload of the formatting step and review_scores holds a result or a
\* "failed" marker.
C6_ScoringNeverFailsSession ==
    pc = "done" =>
        /\ review_out = "returned"
        /\ payload = SuccessPayload
        /\ ctx.review_scores.status \in {"success", "failed"}

\* Every agent's own logic succeeded: each call made returned a result that
\* is not degraded and carries no error, or is the formatting call, whose
\* body has nothing failing in its environment.
BusinessLogicSucceeded ==
    /\ Len(calls) = Len(Pipeline)
    /\ \A i \in 1..Len(calls) :
          calls[i].agent # "formatting" =>
              /\ ~calls[i].result.raised
              /\ ~calls[i].result.has_error
              /\ ~calls[i].result.degraded

\* C7: with valid metadata and every agent's logic succeeding, review
\* returns a payload with status "success" and stage "completed".
C7_SuccessWhenAllAgentsSucceed ==
    (pc = "done" /\ ctx.validation_result.is_valid /\ BusinessLogicSucceeded) =>
        /\ review_out = "returned"
        /\ payload.status = "success"
        /\ payload.stage = "completed"

\* C8: when validation reports the metadata invalid, no other agent and no
\* scoring is invoked and the payload returned has status "failure" and
\* stage "input_validation".
C8_InvalidInputIsTerminal ==
    (ctx.validation_result.set /\ ~ctx.validation_result.is_valid) =>
        /\ Len(calls) = 1
        /\ ~sc.started
        /\ review_out # "raised"
        /\ review_out = "returned" =>
              payload.status = "failure" /\ payload.stage = "input_validation"

\* C9: for metadata without arch_img_url, the issues of the failure payload
\* hold an entry whose "field" key equals "metadata.arch_img_url" (stated for
\* the reviews whose payload is the one of the input_validation stage).
C9_FieldLevelIssueInPayload ==
    (/\ review_out = "returned"
     /\ metadata.isdict
     /\ metadata.arch_img_url = "missing"
     /\ calls[1].reply = "normal"
     /\ payload.stage = "input_validation") =>
        \E k \in 1..Len(payload.issues) :
            /\ "field" \in payload.issues[k].keys
            /\ payload.issues[k].field = "metadata.arch_img_url"

NeverFailAgents == {"input_validation", "image_preprocessing", "triage"}

\* C10: when a never-fail agent caught an error of its own and returned a
\* degraded result, the review aborts: no later agent and no scoring runs.
C10_DegradedResultAborts ==
    \A i \in 1..Len(calls) :
        (calls[i].agent \in NeverFailAgents /\ calls[i].result.degraded) =>
            i = Len(calls) /\ ~sc.started


\* C11: every call made through _run_with_sla appends exactly one record to
\* ctx.agent_sla, whether the agent returned, returned a result carrying an
\* error, or raised; at every point of a review ctx.agent_sla has as many
\* records as agent calls have finished, the i-th record naming the i-th call.
C11_OneRecordPerInvocation ==
    /\ Len(ctx.agent_sla) = Len(calls)
    /\ \A i \in 1..Len(calls) : ctx.agent_sla[i].agent = calls[i].agent

\* A call that returned and then a call that failed, both recorded.
C11_Witness ==
    /\ Len(calls) >= 2
    /\ ~AgentFailed(calls[1])
    /\ AgentFailed(calls[Len(calls)])
    /\ Len(ctx.agent_sla) = Len(calls)

\* C12 as stated: _run_with_sla hands its caller the agent's own outcome --
\* the exception the agent raised, or the result the agent returned, a
\* result carrying an error field included, unchanged.
C12_OutcomeUnchanged ==
    \A i \in 1..Len(calls) :
        IF calls[i].result.raised
        THEN /\ calls[i].seen.kind = "raise"
             /\ calls[i].seen.exc = calls[i].result.exc
        ELSE /\ calls[i].seen.kind = "return"
             /\ calls[i].seen.result = calls[i].result

\* C12 amended: an exception raised by the agent reaches the caller as it
\* is; a result without a non-empty error field is returned unchanged; a
\* result with a non-empty error field is not returned: the caller gets an
\* exception whose message is that error.
C12_OutcomeKeptOrErrorRaised ==
    \A i \in 1..Len(calls) :
        LET res == calls[i].result
            seen == calls[i].seen
        IN  /\ res.raised => seen.kind = "raise" /\ seen.exc = res.exc
            /\ (~res.raised /\ ~(res.has_error /\ res.error # ""))
                  => seen.kind = "return" /\ seen.result = res
            /\ (~res.raised /\ res.has_error /\ res.error # "")
                  => seen.kind = "raise" /\ seen.exc = res.error

\* One result handed back unchanged, then one result with an error turned
\* into an exception.
C12_Witness ==
    /\ Len(calls) >= 2
    /\ calls[1].seen.kind = "return"
    /\ \E i \in 1..Len(calls) :
          /\ ~calls[i].result.raised
          /\ calls[i].result.has_error
          /\ calls[i].seen.kind = "raise"


\* C13: in every sla record the duration is not negative and equals the
\* record's end time minus its start time, the clock being a non-decreasing
\* integer that may advance between any two reads.
C13_DurationIsEndMinusStart ==
    \A i \in 1..Len(ctx.agent_sla) :
        /\ ctx.agent_sla[i].duration_ms >= 0
        /\ ctx.agent_sla[i].duration_ms
             = ctx.agent_sla[i].end_time - ctx.agent_sla[i].start_time


\* C14: the events yielded by event_generator are always a prefix of the
\* items the producer put on the queue, in the same order: nothing is
\* reordered, duplicated or skipped.
C14_YieldedIsPrefixOfProduced ==
    /\ Len(yielded) <= Len(produced)
    /\ \A i \in 1..Len(yielded) : yielded[i] = produced[i]

\* Several events forwarded while the producer is ahead of the consumer.
C14_Witness ==
    /\ Len(yielded) >= 3
    /\ Len(produced) >= Len(yielded) + 2
    /\ yielded[1] # yielded[2]

SentinelPositions == {i \in 1..Len(produced) : produced[i] = Sentinel}

\* C15: run_review puts the sentinel exactly once, directly after the
\* terminal event and as the last item it ever puts, on every path, the one
\* where review raises included; the consumer never yields the sentinel and
\* has stopped once it has taken it from the queue.
C15_SentinelOnceAndLast ==
    /\ Cardinality(SentinelPositions) <= 1
    /\ \A i \in SentinelPositions :
          /\ i = Len(produced)
          /\ i > 1
          /\ produced[i - 1].event \in {"final", "error"}
    /\ pc = "done" => SentinelPositions # {}
    /\ pc # "done" => SentinelPositions = {}
    /\ \A i \in 1..Len(yielded) : yielded[i] # Sentinel
    /\ (SentinelPositions # {} /\ queue = <<>>) => cpc = "stopped"

\* review raised, the subscriber stayed, and the consumer stopped on the
\* sentinel after forwarding everything before it.
C15_Witness ==
    /\ pc = "done"
    /\ review_out = "raised"
    /\ ~disconnected
    /\ cpc = "stopped"
    /\ queue = <<>>
    /\ Len(yielded) = Len(produced) - 1
    /\ produced[Len(produced)] = Sentinel


\* The agent outcomes of a run: the reply each agent call got and the
\* outcome of each LLM call of the failure formatter.
AgentReplies == [i \in 1..Len(calls) |-> calls[i].reply]
FormatterOutcomes == [k \in 1..Len(fail_calls) |-> fail_calls[k].llm]

\* The session context review builds from the metadata and the replies of
\* the first Len(replies) agents of the pipeline.
RECURSIVE CtxAfter(_, _)
CtxAfter(md, replies) ==
    IF replies = <<>>
    THEN ReviewSessionContext(md)
    ELSE LET n == Len(replies)
             before == CtxAfter(md, SubSeq(replies, 1, n - 1))
             res == AgentCall(Pipeline[n], before, replies[n])
         IN  [WriteSlot(before, Pipeline[n], replies[n], res)
                 EXCEPT !.agent_sla = SlaAppend(@, Pipeline[n], res)]

\* The first call of _fail that these replies lead to, if any.
FirstFailure(md, replies) ==
    LET n == Len(replies)
        c == CtxAfter(md, replies)
        res == AgentCall(Pipeline[n], CtxAfter(md, SubSeq(replies, 1, n - 1)), replies[n])
    IN  IF n = 0
        THEN NoFailArgs
        ELSE IF SlaRaises(res)
        THEN [stage |-> "orchestration", issues |-> <<StrIssue(SlaException(res))>>,
              site |-> "handler"]
        ELSE IF n = 1 /\ ~c.validation_result.is_valid
        THEN [stage |-> "input_validation", issues |-> c.validation_result.issues,
              site |-> "try"]
        ELSE NoFailArgs

IncompletePayload == [NoPayload EXCEPT !.status = "incomplete"]

\* The payload review ends with, as a function of the metadata and of the
\* agent outcomes alone (NoPayload when review raises).
ExpectedPayload(md, replies, llms) ==
    LET f == FirstFailure(md, replies)
        c == CtxAfter(md, replies)
    IN  IF ~md.isdict THEN NoPayload
        ELSE IF f = NoFailArgs \/ llms = <<>> THEN IncompletePayload
        ELSE IF llms[1] = "text"
        THEN format_failure_response(c, FailureDetails(f.issues), f.stage)
        ELSE IF f.site = "handler" THEN NoPayload
        ELSE IF Len(llms) < 2 THEN IncompletePayload
        ELSE IF llms[2] = "text"
        THEN format_failure_response(c,
                 FailureDetails(<<StrIssue("failure formatter LLM call failed")>>),
                 "orchestration")
        ELSE NoPayload

\* The steps of the orchestration task.
ProducerNext ==
    \/ ReviewStart \/ ReviewEmit \/ ReviewCall \/ ReviewCheckValid \/ ReviewExcept
    \/ Fail \/ FailEmit \/ Log
    \/ RunReviewFinal \/ RunReviewExcept \/ RunReviewFinally

\* C16: a disconnect of the subscriber does not cancel the orchestration
\* task.  Whatever the subscriber and the consumer did, the task can take its
\* next step until run_review is done, and the final payload and the logged
\* snapshot are the ones determined by the metadata and the agent outcomes
\* alone -- hence the same as in the run where the subscriber stays
\* connected and the agents answer the same.
C16_DisconnectDoesNotChangeReview ==
    /\ pc # "done" => ENABLED ProducerNext
    /\ pc = "done" =>
          payload = ExpectedPayload(metadata, AgentReplies, FormatterOutcomes)
    /\ \A k \in 1..Len(log_calls) :
          log_calls[k].snapshot = CtxAfter(metadata, AgentReplies)

\* The subscriber left before anything was forwarded; the review still
\* called agents, built a failure payload, logged and finished.
C16_Witness ==
    /\ disconnected
    /\ yielded = <<>>
    /\ pc = "done"
    /\ Len(calls) >= 2
    /\ payload.status = "failure"
    /\ Len(log_calls) = 1
    /\ produced[Len(produced)] = Sentinel


\* C17: once the subscriber has disconnected, event_generator forwards no
\* further event: no step taken after the disconnect yields a chunk, the
\* chunk that arrives while the consumer already waits on the queue
\* included.
C17_NoYieldAfterDisconnect == [][disconnected => yielded' = yielded]_vars


\* C18: the Failure Responder (_fail, format_failure_response) never
\* throws: every call of it, also one whose LLM call fails, gives back a
\* failure payload for the stage and the issues it was called with.
C18_FailureResponderNeverThrows ==
    Len(fail_calls) > 0 =>
        LET last == fail_calls[Len(fail_calls)]
        IN  /\ payload.status = "failure"
            /\ payload.stage = last.stage
            /\ payload.issues = last.issues


\* The ordering invariant of a plan against the registry: every dependency
\* of an agent of stage i is in some stage before i.
OrderingInvariant(stages) ==
    \A i \in 1..Len(stages) : \A k \in 1..Len(stages[i]) :
        \A d \in _AGENTS[stages[i][k]] :
            \E j \in 1..(i - 1) : \E m \in 1..Len(stages[j]) : stages[j][m] = d

\* C19: for every candidate layout the planning oracle can return (empty,
\* unknown names, out-of-order references, repeated names), the plan that
\* PlannerAgent.plan returns satisfies the ordering invariant against the
\* registry.
C19_PlanSatisfiesOrdering ==
    planner.out.kind = "returned" => OrderingInvariant(planner.out.stages)

\* C20: turning the oracle's reply into a plan never fails: for every reply
\* text (not JSON, JSON that is not an object, an object whose `stages` is
\* missing or wrongly typed) plan returns some plan and raises nothing.
C20_PlanNeverRaises ==
    (planner.pc = "done" /\ planner.reply.kind # "exception")
        => planner.out.kind = "returned"


\* A candidate layout with nothing usable in it: text that is not JSON, an
\* object without `stages`, `stages` that is not a list, or stages of which
\* nothing is left after filtering.
CandidateUnusable(reply) ==
    \/ reply.kind \in {"not_json", "empty_text"}
    \/ reply.kind = "object" /\ _normalize_stages(reply.stages) = <<>>

\* C21: whenever the candidate layout is empty or unusable, the plan that
\* plan returns is the fallback layout [[demographics, image_analysis],
\* [triage], [remediation]], never an empty plan.
C21_UnusableCandidateGivesFallback ==
    (planner.out.kind = "returned" /\ CandidateUnusable(planner.reply))
        => planner.out.stages = FallbackStages


\* Topological layering of the registry: each layer holds, in declaration
\* order, the agents not yet placed whose dependencies are all placed.
RECURSIVE Layers(_)
Layers(placed) ==
    LET ready == SelectSeq(AgentOrder, LAMBDA a : a \notin placed /\ _AGENTS[a] \subseteq placed)
    IN  IF ready = <<>>
        THEN <<>>
        ELSE <<ready>> \o Layers(placed \cup {ready[k] : k \in 1..Len(ready)})

TopologicalLayering == Layers({})

Positions(stages, a) ==
    {<<i, k>> \in (1..Len(stages)) \X (1..Len(AgentOrder)) :
        k <= Len(stages[i]) /\ stages[i][k] = a}

\* C22: the fallback plan is the topological layering of the registry's
\* dependency graph in declaration order; it satisfies the ordering
\* invariant and every registry agent is in exactly one stage of it.
C22_FallbackIsTopologicalLayering ==
    (planner.pc = "done" /\ planner.reply.kind = "not_json") =>
        /\ planner.out.kind = "returned"
        /\ planner.out.stages = TopologicalLayering
        /\ OrderingInvariant(planner.out.stages)
        /\ \A a \in DOMAIN _AGENTS :
              Cardinality(Positions(planner.out.stages, a)) = 1

\* The oracle answered with text that is not JSON and plan returned the
\* three-stage fallback.
C22_Witness ==
    /\ planner.pc = "done"
    /\ planner.reply.kind = "not_json"
    /\ planner.out.kind = "returned"
    /\ Len(planner.out.stages) = 3


\* The agents an agent depends on in the registry, directly or through
\* other agents.
RECURSIVE TransitiveDependencies(_)
TransitiveDependencies(a) ==
    _AGENTS[a] \cup UNION {TransitiveDependencies(d) : d \in _AGENTS[a]}

\* C23: in every execution of review an agent of the registry is called only
\* after each agent it depends on, directly or transitively, has been called
\* and has finished without failure; the calls are awaited one after the
\* other, so none overlaps another.  In particular triage comes after
\* demographics and image_analysis, and remediation after triage.
C23_AgentsRunAfterTheirDependencies ==
    \A i \in 1..Len(calls) :
        calls[i].agent \in DOMAIN _AGENTS =>
            \A d \in TransitiveDependencies(calls[i].agent) :
                \E j \in 1..(i - 1) :
                    /\ calls[j].agent = d
                    /\ ~AgentFailed(calls[j])

\* remediation has been called, after triage and the two analyses.
C23_Witness ==
    /\ Len(calls) >= 6
    /\ calls[5].agent = "triage"
    /\ calls[6].agent = "remediation"


\* C24: every dimension score that ScoringAgent.score returns lies in
\* [1,10] whatever integers the judge put out, and so do every normalized
\* dimension and the overall score in ctx.review_scores of a successful
\* scoring pass (10..100 in tenths).
C24_ScoresWithinBounds ==
    /\ \A a \in DOMAIN sc.per_agent : \A k \in Dimensions :
          sc.per_agent[a].score[k] \in 1..10
    /\ ctx.review_scores.status = "success" =>
          /\ \A k \in Dimensions \cup {"score"} :
                ctx.review_scores.overall[k] \in 10..100
          /\ \A a \in DOMAIN ctx.review_scores.per_agent : \A k \in Dimensions :
                ctx.review_scores.per_agent[a].score[k] \in 1..10

\* A successful pass with two judged agents, one scored 1 after the judge
\* said 0 and one scored 10 after the judge said 12.
C24_Witness ==
    /\ ctx.review_scores.status = "success"
    /\ \E a, b \in DOMAIN ctx.review_scores.per_agent :
          /\ ctx.review_scores.per_agent[a].score["accuracy"] = 1
          /\ ctx.review_scores.per_agent[b].score["bias"] = 10


\* C25: when the judge's reply has an invalid value for a dimension (not an
\* integer, missing, or out of range), ScoringAgent.score clamps it and
\* returns a score instead of failing: every call of score whose LLM call
\* answered has returned.
C25_InvalidJudgeValueIsClamped ==
    \A i \in 1..Len(sc.judged) :
        sc.judged[i].kind # "exception" => sc.judged[i].returned


\* C26: traces whose agent has no entry in AGENT_WEIGHTS are skipped
\* silently: they are never sent to the judge, and a scoring pass in which
\* the scorer was built and no call of score failed ends with status
\* "success", also when some or all traces are unweighted or there are no
\* traces at all.
C26_UnweightedTracesSkippedSilently ==
    /\ \A i \in 1..Len(sc.judged) : sc.judged[i].agent \in DOMAIN AGENT_WEIGHTS
    /\ ( /\ ctx.review_scores.status # "None"
         /\ \A i \in 1..Len(sc.judged) : sc.judged[i].returned )
          => ctx.review_scores.status = "success"


\* Sum over the judged traces of dimension k's score times the agent's weight.
RECURSIVE WeightedSum(_, _)
WeightedSum(judged, k) ==
    IF judged = <<>>
    THEN 0
    ELSE (IF Head(judged).returned
          THEN Head(judged).score[k] * AGENT_WEIGHTS[Head(judged).agent]
          ELSE 0)
         + WeightedSum(Tail(judged), k)

\* Sum of the weights of the judged traces.
RECURSIVE WeightsUsed(_)
WeightsUsed(judged) ==
    IF judged = <<>>
    THEN 0
    ELSE (IF Head(judged).returned THEN AGENT_WEIGHTS[Head(judged).agent] ELSE 0)
         + WeightsUsed(Tail(judged))

\* C27 as stated: after a successful pass each normalized dimension equals
\* the weighted sum of the judged scores divided by the sum of the weights
\* of the judged traces (the normalized dimension is in tenths).
C27_NormalizedIsExactQuotient ==
    ctx.review_scores.status = "success" =>
        \A k \in Dimensions :
            ctx.review_scores.overall[k] * WeightsUsed(sc.judged)
              = 10 * WeightedSum(sc.judged, k)

\* C27 amended: each normalized dimension is that quotient -- the divisor
\* being the sum of the weights of the judged traces only, not of the full
\* weight table -- rounded to one decimal place: it is a multiple of 0.1 at
\* most 0.05 away from the quotient.
C27_NormalizedIsRoundedQuotient ==
    ctx.review_scores.status = "success" =>
        \A k \in Dimensions :
            LET n == ctx.review_scores.overall[k] * WeightsUsed(sc.judged)
                q == 10 * WeightedSum(sc.judged, k)
            IN  /\ 2 * (n - q) <= WeightsUsed(sc.judged)
                /\ 2 * (q - n) <= WeightsUsed(sc.judged)

\* A successful pass that used less than the whole weight table and in
\* which a quotient is not a multiple of 0.1.
C27_Witness ==
    /\ ctx.review_scores.status = "success"
    /\ WeightsUsed(sc.judged) \notin {0, 10}
    /\ \E k \in Dimensions :
          ctx.review_scores.overall[k] * WeightsUsed(sc.judged)
            # 10 * WeightedSum(sc.judged, k)


\* Sum of the four normalized dimensions of review_scores, in tenths.
DimensionSum(overall) ==
    overall["accuracy"] + overall["bias"] + overall["hallucination"] + overall["confidence"]

\* C28: the overall score of a successful pass is the arithmetic mean of the
\* four normalized dimension scores rounded once to one decimal place: in
\* tenths, it is an integer at most one half away from a quarter of their
\* sum.
C28_OverallIsRoundedMean ==
    ctx.review_scores.status = "success" =>
        LET s == DimensionSum(ctx.review_scores.overall)
            o == ctx.review_scores.overall["score"]
        IN  /\ 4 * o - s <= 2
            /\ s - 4 * o <= 2

\* A successful pass in which the mean of the four dimensions is not a
\* multiple of 0.1 and was rounded up.
C28_Witness ==
    /\ ctx.review_scores.status = "success"
    /\ DimensionSum(ctx.review_scores.overall) % 4 = 3
    /\ 4 * ctx.review_scores.overall["score"]
         = DimensionSum(ctx.review_scores.overall) + 1


\* _run_scoring has been entered and has not yet been left.
ScoringInProgress == pc \in {"scoring_emit", "scoring_loop", "scoring_except"}

C30_MetadataImmutable ==
    (metadata.isdict /\ pc # "start") => ctx.metadata = metadata


-----------------------------------------------------------------------------
\* The result slot of the Session Context each agent writes; the formatter
\* writes none.
ResultSlots ==
    [input_validation    |-> "validation_result",
     image_preprocessing |-> "preprocessed_image",
     demographics        |-> "demographics_from_json",
     image_analysis      |-> "image_analysis",
     triage              |-> "triage_results",
     remediation         |-> "remediation_result"]

InvokedAgents(cs) == {cs[i].agent : i \in 1..Len(cs)}

\* C31: within one review every agent is invoked at most once and its result
\* slot is written at most once, also on the failure paths: every step that
\* invokes an agent invokes one that was not invoked before, and a result
\* slot changes only in the step that invokes its agent.
C31_AgentsInvokedAndSlotsWrittenOnce ==
    [][ /\ calls' # calls =>
             \E c \in {calls'[Len(calls')]} :
                /\ calls' = Append(calls, c)
                /\ c.agent \notin InvokedAgents(calls)
        /\ \A a \in DOMAIN ResultSlots :
             ctx'[ResultSlots[a]] # ctx[ResultSlots[a]] =>
                /\ a \notin InvokedAgents(calls)
                /\ a \in InvokedAgents(calls') ]_vars

\* All seven agents were invoked, the last one failed and the failure path
\* ran to the end.
C31_Witness ==
    /\ Len(calls) = 7
    /\ Len(fail_calls) = 1
    /\ pc = "return"


-----------------------------------------------------------------------------
IsPrefix(s, t) == Len(s) <= Len(t) /\ SubSeq(t, 1, Len(s)) = s

\* C32: ctx.agent_sla and ctx.llm_traces only grow: in every step of a
\* review the previous content of each list is a prefix of its new content.
C32_SlaAndTracesOnlyGrow ==
    [][ /\ IsPrefix(ctx.agent_sla, ctx'.agent_sla)
        /\ IsPrefix(ctx.llm_traces, ctx'.llm_traces) ]_vars

\* Three records were appended one after the other, the last for a failed
\* call.
C32_Witness ==
    /\ Len(ctx.agent_sla) = 3
    /\ ctx.agent_sla[3].status = "failed"
    /\ ctx.agent_sla[1].status = "success"


-----------------------------------------------------------------------------
\* The other request.
Other(r) == CHOOSE o \in Requests : o # r

\* C33: two reviews running interleaved on the shared orchestrator are
\* independent: each holds a context and a queue of its own, and a step of
\* one review leaves the locals (payload included), the context (with its
\* sla records and scores) and the queue of events of the other unchanged.
C33_InterleavedReviewsIndependent ==
    [][ \A r \in Requests :
          LET o == Other(r) IN
          app'.last = r =>
            /\ app'.locals[o] = app.locals[o]
            /\ app'.locals[r].queue # app'.locals[o].queue
            /\ app'.locals[r].ctx # 0 => app'.locals[r].ctx # app'.locals[o].ctx
            /\ app.locals[o].ctx # 0 =>
                 app'.contexts[app.locals[o].ctx] = app.contexts[app.locals[o].ctx]
            /\ app'.queues[app.locals[o].queue] = app.queues[app.locals[o].queue]
            /\ app'.orchestrator = app.orchestrator ]_vars

\* Both reviews are under way at once: each has run agents and put events,
\* and neither has finished.
C33_Witness ==
    /\ app.last # 0
    /\ \A r \in Requests :
         /\ app.locals[r].ctx # 0
         /\ Len(app.contexts[app.locals[r].ctx].agent_sla) >= 2
         /\ Len(app.queues[app.locals[r].queue]) >= 3
         /\ app.locals[r].pc \notin {"done", "start"}
    /\ app.contexts[app.locals[1].ctx] # app.contexts[app.locals[2].ctx]


-----------------------------------------------------------------------------
\* C34: the log sink is invoked only after the final payload has been
\* assembled, and logging happens after the front-end response: by the time
\* the sink is invoked the payload has been returned and the "final" event
\* produced.
C34_LogAfterResponse ==
    log_calls # <<>> =>
        /\ payload # NoPayload
        /\ review_out = "returned"
        /\ \E i \in 1..Len(produced) : produced[i].event = "final"


-----------------------------------------------------------------------------
\* A list of lists of strings as the value _normalize_stages is handed.
AsStagesRaw(stages) ==
    [islist |-> TRUE,
     items  |-> [k \in 1..Len(stages) |->
                   [islist |-> TRUE,
                    names  |-> [m \in 1..Len(stages[k]) |->
                                  [isstr |-> TRUE, v |-> stages[k][m]]]]]]

\* C35: plan normalization is total and idempotent: for every candidate
\* value _normalize_stages returns a list of non-empty stages that contain
\* only registry agent names, and normalizing that list again returns it
\* unchanged.
C35_NormalizeIsIdempotent ==
    (planner.pc = "done" /\ planner.reply.kind = "object"
                         /\ planner.out.kind = "returned") =>
        LET stages == planner.out.stages IN
        /\ stages = _normalize_stages(planner.reply.stages)
        /\ \A k \in 1..Len(stages) :
              /\ stages[k] # <<>>
              /\ \A m \in 1..Len(stages[k]) : stages[k][m] \in DOMAIN _AGENTS
        /\ _normalize_stages(AsStagesRaw(stages)) = stages

\* A candidate with an entry that is not a list and a stage holding an
\* unknown name was normalized to the one known name it contains.
C35_Witness ==
    /\ planner.pc = "done"
    /\ planner.reply.kind = "object"
    /\ planner.reply.stages.islist
    /\ Len(planner.reply.stages.items) = 2
    /\ ~planner.reply.stages.items[1].islist
    /\ planner.reply.stages.items[2].names =
          <<[isstr |-> TRUE, v |-> "unknown_agent"], [isstr |-> TRUE, v |-> "triage"]>>
    /\ planner.out.kind = "returned"
    /\ planner.out.stages = <<<<"triage">>>>


-----------------------------------------------------------------------------
\* C36: the status of each sla record reflects the outcome the failure
\* policy acts on: it is "failed" exactly when the wrapped call raised or
\* returned a result with a non-empty error, and "success" otherwise; and
\* the record of an input validation that reported is_valid = false has
\* status "failed".
C36_SlaStatusReflectsOutcome ==
    /\ Len(ctx.agent_sla) = Len(calls)
    /\ \A i \in 1..Len(calls) :
          /\ ctx.agent_sla[i].status \in {"failed", "success"}
          /\ ctx.agent_sla[i].status = "failed" <=> AgentFailed(calls[i])
          /\ (calls[i].agent = "input_validation"
                /\ ctx.validation_result.set
                /\ ~ctx.validation_result.is_valid) =>
                   ctx.agent_sla[i].status = "failed"


-----------------------------------------------------------------------------
\* review has returned or raised.
ReviewEnded == pc \in {"return", "run_review_except", "run_review_finally", "done"}

FailedRecords == {i \in 1..Len(ctx.agent_sla) : ctx.agent_sla[i].status = "failed"}

\* C37: at every point of a review ctx.agent_sla lists the invoked agents in
\* pipeline order with no gap; at most one record has status "failed" and,
\* if there is one, it is the last record of the list when the review ends.
C37_SlaInPipelineOrder ==
    /\ Len(ctx.agent_sla) <= Len(Pipeline)
    /\ \A i \in 1..Len(ctx.agent_sla) : ctx.agent_sla[i].agent = Pipeline[i]
    /\ Cardinality(FailedRecords) <= 1
    /\ ReviewEnded => \A i \in FailedRecords : i = Len(ctx.agent_sla)

\* A finished review whose demographics call failed after two successful
\* calls.
C37_Witness ==
    /\ pc = "done"
    /\ Len(ctx.agent_sla) = 3
    /\ ctx.agent_sla[3] = [agent |-> "demographics", status |-> "failed"]
    /\ FailedRecords = {3}


-----------------------------------------------------------------------------
\* The steps of event_generator.
ConsumerNext == IsDisconnected \/ QueueGet \/ Cancelled

\* The event loop runs every task that is ready: the orchestration task
\* (asyncio.create_task(run_review())) and the generator driven by the
\* streaming response.  Every await of either returns or raises, so a step
\* that stays possible is eventually taken.  The subscriber is not obliged
\* to do anything.
FairSpec == Init /\ [][Next]_vars /\ WF_vars(ProducerNext) /\ WF_vars(ConsumerNext)

\* The sentinel was enqueued and the generator stopped after yielding every
\* event produced, the terminal one last.
StreamDelivered ==
    /\ cpc = "stopped"
    /\ Sentinel \in {produced[i] : i \in 1..Len(produced)}
    /\ yielded = SelectSeq(produced, LAMBDA item : item # Sentinel)
    /\ yielded # <<>>
    /\ yielded[Len(yielded)].event \in {"final", "error"}

\* C38: if every external call returns or raises and the subscriber stays
\* connected, then under fair scheduling the sentinel is eventually enqueued
\* and event_generator eventually terminates after having yielded every
\* produced event including the terminal one.
C38_StreamEventuallyDelivered == ([]~disconnected) => <>StreamDelivered

\* A connected subscriber has received a whole stream ending in the final
\* event of a failed review.
C38_Witness ==
    /\ StreamDelivered
    /\ ~disconnected
    /\ Len(yielded) >= 5
    /\ yielded[Len(yielded)].event = "final"


-----------------------------------------------------------------------------
\* Sum over the entries of the per_agent table: of the weights (k = "weight")
\* or of dimension k's score times the weight.
RECURSIVE PerAgentSum(_, _, _)
PerAgentSum(per_agent, agents, k) ==
    IF agents = {}
    THEN 0
    ELSE LET a == CHOOSE x \in agents : TRUE IN
         (IF k = "weight"
          THEN per_agent[a].weight
          ELSE per_agent[a].score[k] * per_agent[a].weight)
         + PerAgentSum(per_agent, agents \ {a}, k)

\* C39: after a successful scoring pass the reported aggregate is consistent
\* with the reported per-agent table: the weight total used for
\* normalization equals the sum of the weights of the entries of per_agent,
\* and each overall dimension is the weighted average of the per_agent
\* entries (to the one decimal place it is rounded to), for every trace
\* list, lists with several traces of the same agent included.
C39_AggregateMatchesPerAgentTable ==
    ctx.review_scores.status = "success" =>
        LET per_agent == ctx.review_scores.per_agent
            weights   == PerAgentSum(per_agent, DOMAIN per_agent, "weight")
        IN  /\ sc.weight_total = weights
            /\ \A k \in Dimensions :
                  LET n == ctx.review_scores.overall[k] * weights
                      s == 10 * PerAgentSum(per_agent, DOMAIN per_agent, k)
                  IN  /\ 2 * (n - s) <= weights
                      /\ 2 * (s - n) <= weights

====
